---- MODULE Spec2Model ----
(***************************************************************************)
(* Multi-attribute linear-hashed files: the relation engine (reln.c) and   *)
(* the partial-match query scan (query.c).                                 *)
(*                                                                         *)
(* The relation is a descriptor (struct RelnRep), an info file, a file of  *)
(* primary data pages and a file of overflow pages.  Pages are records     *)
(* [ntuples, free, ovflow, data]; data is the packed run of tuples, held   *)
(* as a sequence of tuple identifiers (indices into TupleTable).           *)
(*                                                                         *)
(* page.c, tuple.c, bits.c, hash.c and chvec.c are not part of the source  *)
(* tree at hand: their operations are modelled from the specification      *)
(* (sections 3, 4.1 - 4.4.1 and 4.5.3).                                    *)
(***************************************************************************)
EXTENDS Integers, Sequences, FiniteSets, Bags, TLC

\* ------------------------------------------------------------------ bounds
\* at most this many addToRelation calls in one behaviour
MaxInserts == 6

\* --------------------------------------------------------------- constants
PAGESIZE == 1024
\* page header: ntuples, free, ovflow
PAGEHEADER == 12
\* the all-ones page id, read as a signed 32-bit number
NO_PAGE == -1
MAXCHVEC == 32
MAXBITS == 32
FALSE_ == 0
TRUE_ == 1
\* "no tuple": the NULL result of getNextTuple
NULL == 0

\* ------------------------------------------------------------ bit utilities
\* A 32-bit word (Bits) is the set of the positions 0..31 of its one-bits, so
\* that words with bit 31 set stay within the numbers at hand.
RECURSIVE Pow2(_)
Pow2(k) == IF k = 0 THEN 1 ELSE 2 * Pow2(k - 1)

\* the word of a number below 2^16, moved up by sh positions
WordOf(n, sh) == { i + sh : i \in { j \in 0..15 : (n \div Pow2(j)) % 2 = 1 } }

\* the word hi * 2^16 + lo
Word(hi, lo) == WordOf(hi, 16) \cup WordOf(lo, 0)

\* the number a word stands for (words below 2^31 only)
RECURSIVE Val(_)
Val(v) == IF v = {} THEN 0
          ELSE LET i == CHOOSE j \in v : TRUE IN Pow2(i) + Val(v \ {i})

bitIsSet(v, i) == i \in v

setBit(v, i) == v \cup {i}

\* the low k bits of v, as a number: it is compared with sp and npages and
\* used as a page id (k = 0 gives 0)
getLower(v, k) == Val({ i \in v : i < k })

\* v | w
BitOr(v, w) == v \cup w

\* v + 1 modulo 2^32
BitsInc(v) ==
    IF \A i \in 0..(MAXBITS - 1) : i \in v THEN {}
    ELSE LET j == CHOOSE k \in 0..(MAXBITS - 1) :
                      k \notin v /\ \A i \in 0..(k - 1) : i \in v
         IN { i \in v : i > j } \cup {j}

\* -------------------------------------------------------------------- hash
\* The 32-bit digest of an attribute value: deterministic and opaque.  The
\* table fixes one digest per value used below (0x9E3779B8, 0x3C6EF361,
\* 0x85EBCA6A, 0xC2B2AE3F, 0x27D4EB2D); the low two bits of "a", "b", "c",
\* "d" are 00, 01, 10, 11.
Values == {"a", "b", "c", "d", "f7", "f11", "f21"}

HashTable ==
    [v \in Values |->
        CASE v = "a" -> Word(40503, 31160)
          [] v = "b" -> Word(15470, 62305)
          [] v = "c" -> Word(34283, 51818)
          [] v = "d" -> Word(49842, 44607)
          [] OTHER   -> Word(10196, 60205)]

hash_any(v) == HashTable[v]

\* ------------------------------------------------------------------ tuples
\* A tuple is the string v1,v2,...,vN\0.  The tuples used here vary in their
\* first two attributes; attributes 2..N-1 all hold the same value "fill",
\* whose length decides how long the tuple is.
ValLen(v) ==
    CASE v = "f7"  -> 7
      [] v = "f11" -> 11
      [] v = "f21" -> 21
      [] OTHER     -> 1

TupleTable ==
    << [k0 |-> "a", k1 |-> "a", fill |-> "f11"],
       [k0 |-> "c", k1 |-> "b", fill |-> "f7"],
       [k0 |-> "b", k1 |-> "a", fill |-> "f7"],
       [k0 |-> "a", k1 |-> "b", fill |-> "f11"],
       [k0 |-> "a", k1 |-> "a", fill |-> "f21"] >>

TupleIds == 1..Len(TupleTable)

\* the i-th comma-separated field of tuple t (i = 0..nattrs-1)
tupleVals(t, i) ==
    IF i = 0 THEN TupleTable[t].k0
    ELSE IF i = 1 THEN TupleTable[t].k1
    ELSE TupleTable[t].fill

\* strlen(t) + 1, the bytes the tuple takes in a page: the values, the
\* nattrs-1 commas and the terminator
tupLength(nattrs, t) ==
    ValLen(tupleVals(t, 0)) + ValLen(tupleVals(t, 1))
    + (nattrs - 2) * ValLen(tupleVals(t, 2)) + (nattrs - 1) + 1

\* Query patterns: the same shape, any field may be "?".
PatternTable ==
    << [k0 |-> "?", k1 |-> "?", fill |-> "?"],
       [k0 |-> "a", k1 |-> "?", fill |-> "?"],
       [k0 |-> "?", k1 |-> "a", fill |-> "?"],
       [k0 |-> "c", k1 |-> "?", fill |-> "?"],
       [k0 |-> "c", k1 |-> "b", fill |-> "f7"],
       [k0 |-> "?", k1 |-> "b", fill |-> "f11"] >>

PatternIds == 1..Len(PatternTable)

\* the full-wildcard pattern
AllStars ==
    CHOOSE p \in PatternIds :
        /\ PatternTable[p].k0 = "?"
        /\ PatternTable[p].k1 = "?"
        /\ PatternTable[p].fill = "?"

patternVals(q, i) ==
    IF i = 0 THEN PatternTable[q].k0
    ELSE IF i = 1 THEN PatternTable[q].k1
    ELSE PatternTable[q].fill

\* true iff every non-wildcard field of the pattern equals the tuple's field
\* (fields 2..nattrs-1 are all alike, so field 2 stands for them)
tupleMatch(nattrs, q, t) ==
    \A i \in 0..(IF nattrs > 3 THEN 2 ELSE nattrs - 1) :
        patternVals(q, i) = "?" \/ patternVals(q, i) = tupleVals(t, i)

\* ----------------------------------------------------------- choice vector
\* the items att:bit of the choice-vector string, zero-padded to MAXCHVEC
parseChVec(items) ==
    [i \in 0..(MAXCHVEC - 1) |->
        IF i < Len(items)
        THEN [att |-> items[i + 1][1], bit |-> items[i + 1][2]]
        ELSE [att |-> 0, bit |-> 0]]

\* composite hash: bit i is bit cv[i].bit of the hash of attribute cv[i].att
tupleHash(cv, t) ==
    { i \in 0..(MAXCHVEC - 1) :
        bitIsSet(hash_any(tupleVals(t, cv[i].att)), cv[i].bit) }

\* -------------------------------------------------------------------- page
newPage == [ntuples |-> 0, free |-> 0, ovflow |-> NO_PAGE, data |-> << >>]

pageOvflow(p) == p.ovflow

pageSetOvflow(p, id) == [p EXCEPT !.ovflow = id]

pageNTuples(p) == p.ntuples

pageFreeSpace(p) == PAGESIZE - PAGEHEADER - p.free

\* the tuple fits iff its length <= the remaining free bytes
pageHasRoom(nattrs, p, t) == tupLength(nattrs, t) <= pageFreeSpace(p)

addToPage(nattrs, p, t) ==
    IF pageHasRoom(nattrs, p, t)
    THEN [p EXCEPT !.data = Append(@, t),
                   !.free = @ + tupLength(nattrs, t),
                   !.ntuples = @ + 1]
    ELSE p

\* files are sequences of pages; page id i is element i+1
getPage(file, id) == file[id + 1]

putPage(file, id, p) == [file EXCEPT ![id + 1] = p]

addPage(file) == Append(file, newPage)

\* ---------------------------------------------------------------- relation
\* struct RelnRep, the eight counters in their declared order, then cv, mode
Reln(nattrs, npages, d, cv) ==
    [nattrs |-> nattrs, depth |-> d, sp |-> 0, npages |-> npages, ntups |-> 0,
     c |-> 1024 \div (10 * nattrs), insertion |-> 0, splitting |-> FALSE_,
     cv |-> parseChVec(cv), mode |-> "w"]

\* a machine state handed through the operations: the descriptor, the two
\* page files, the value the last call returned, and held, the number of
\* page buffers obtained with getPage and not yet released (by putPage or
\* by free; newPage buffers are not counted)
Mach(r, data, ovflow) ==
    [r |-> r, data |-> data, ovflow |-> ovflow, ret |-> NO_PAGE, held |-> 0]

\* mutant of splitDue: the split comes one insertion late
splitDue_late(r) == r.insertion = r.c + 1

\* the split condition of addToRelation
splitDue(r) == r.insertion = r.c

\* mutant of bucketOf: the split pointer is not consulted
bucketOf_depthOnly(r, h) == getLower(h, r.depth)

\* the MAH address of composite hash h under (depth, sp)
bucketOf(r, h) ==
    LET p == getLower(h, r.depth)
    IN IF p < r.sp THEN getLower(h, r.depth + 1) ELSE p

\* mutant of countInsert: the splitting flag is not consulted
countInsert_always(r) == [r EXCEPT !.ntups = @ + 1, !.insertion = @ + 1]

\* the counters after a successful placement
countInsert(r) ==
    IF r.splitting = FALSE_
    THEN [r EXCEPT !.ntups = @ + 1, !.insertion = @ + 1]
    ELSE r

\* walk the overflow chain from page ovp until a page has room for t:
\* [found, ovp] the page with room, or [~found, prevp] the last page seen;
\* nfull is the number of full pages passed, each of them held in prevpg
\* in its turn
RECURSIVE scanChain(_, _, _, _, _)
\* variant: a page is passed without being tried
scanChain_noFit(nattrs, ovflow, ovp, prevp, t) ==
    IF ovp = NO_PAGE
    THEN [found |-> FALSE, ovp |-> NO_PAGE, prevp |-> prevp, nfull |-> 0]
    ELSE [scanChain(nattrs, ovflow, pageOvflow(getPage(ovflow, ovp)), ovp, t)
             EXCEPT !.nfull = @ + 1]

scanChain(nattrs, ovflow, ovp, prevp, t) ==
    IF ovp = NO_PAGE
    THEN [found |-> FALSE, ovp |-> NO_PAGE, prevp |-> prevp, nfull |-> 0]
    ELSE LET ovpg == getPage(ovflow, ovp)
         IN IF pageHasRoom(nattrs, ovpg, t)
            THEN [found |-> TRUE, ovp |-> ovp, prevp |-> prevp, nfull |-> 0]
            ELSE [scanChain(nattrs, ovflow, pageOvflow(ovpg), ovp, t)
                     EXCEPT !.nfull = @ + 1]

\* the full pages passed in the chain walk, less the last: each was held in
\* prevpg and dropped when prevpg took the next page (line 186)
droppedPrev(nfull) == IF nfull >= 1 THEN nfull - 1 ELSE 0

\* primary page full and it has no overflow page yet: pg is written back;
\* the return at line 170 leaves newpg held
addFirstOvflow(m, p, pg, t) ==
    LET n == m.r.nattrs
        newp == Len(m.ovflow)
        ov1 == addPage(m.ovflow)
        data1 == putPage(m.data, p, pageSetOvflow(pg, newp))
        newpg == getPage(ov1, newp)
    IN IF ~pageHasRoom(n, newpg, t)
       THEN [m EXCEPT !.data = data1, !.ovflow = ov1, !.ret = NO_PAGE,
                      !.held = @ + 1]
       ELSE [m EXCEPT !.data = data1,
                      !.ovflow = putPage(ov1, newp, addToPage(n, newpg, t)),
                      !.r = countInsert(m.r), !.ret = p]

\* variant: the id of the overflow page that took the tuple is returned
addToChain_retOv(m, p, pg, t) ==
    LET n == m.r.nattrs
        w == scanChain(n, m.ovflow, pageOvflow(pg), NO_PAGE, t)
    IN IF w.found
       THEN [m EXCEPT !.ovflow = putPage(m.ovflow, w.ovp,
                                         addToPage(n, getPage(m.ovflow, w.ovp), t)),
                      !.r = countInsert(m.r), !.ret = w.ovp,
                      !.held = @ + 1 + droppedPrev(w.nfull)]
       ELSE LET newp == Len(m.ovflow)
                ov1 == addPage(m.ovflow)
                newpg == getPage(ov1, newp)
                prevpg == getPage(m.ovflow, w.prevp)
            IN IF ~pageHasRoom(n, newpg, t)
               THEN [m EXCEPT !.ovflow = ov1, !.ret = NO_PAGE,
                              !.held = @ + 3 + droppedPrev(w.nfull)]
               ELSE [m EXCEPT !.ovflow = putPage(putPage(ov1, newp, addToPage(n, newpg, t)),
                                                 w.prevp, pageSetOvflow(prevpg, newp)),
                              !.r = countInsert(m.r), !.ret = newp,
                              !.held = @ + 1 + droppedPrev(w.nfull)]

\* primary page full and it has an overflow chain.  pg is neither written
\* back nor freed on any path of this branch; the page that takes the tuple
\* is written back and the last prevpg is freed or written back, except at
\* the return of line 205, which leaves prevpg and newpg held as well
addToChain(m, p, pg, t) ==
    LET n == m.r.nattrs
        w == scanChain(n, m.ovflow, pageOvflow(pg), NO_PAGE, t)
    IN IF w.found
       THEN [m EXCEPT !.ovflow = putPage(m.ovflow, w.ovp,
                                         addToPage(n, getPage(m.ovflow, w.ovp), t)),
                      !.r = countInsert(m.r), !.ret = p,
                      !.held = @ + 1 + droppedPrev(w.nfull)]
       ELSE LET newp == Len(m.ovflow)
                ov1 == addPage(m.ovflow)
                newpg == getPage(ov1, newp)
                prevpg == getPage(m.ovflow, w.prevp)
            IN IF ~pageHasRoom(n, newpg, t)
               THEN [m EXCEPT !.ovflow = ov1, !.ret = NO_PAGE,
                              !.held = @ + 3 + droppedPrev(w.nfull)]
               ELSE [m EXCEPT !.ovflow = putPage(putPage(ov1, newp, addToPage(n, newpg, t)),
                                                 w.prevp, pageSetOvflow(prevpg, newp)),
                              !.r = countInsert(m.r), !.ret = p,
                              !.held = @ + 1 + droppedPrev(w.nfull)]

\* the placement part of addToRelation
placeTuple(m, t) ==
    LET n == m.r.nattrs
        p == bucketOf(m.r, tupleHash(m.r.cv, t))
        pg == getPage(m.data, p)
    IN IF pageHasRoom(n, pg, t)
       THEN [m EXCEPT !.data = putPage(m.data, p, addToPage(n, pg, t)),
                      !.r = countInsert(m.r), !.ret = p]
       ELSE IF pageOvflow(pg) = NO_PAGE
            THEN addFirstOvflow(m, p, pg, t)
            ELSE addToChain(m, p, pg, t)

\* mutant of splitWrap: sp is reset but depth is not incremented
splitWrap_keepDepth(r) ==
    IF r.sp = Pow2(r.depth) THEN [r EXCEPT !.sp = 0] ELSE r

\* variant: the wrap at sp = 2^depth - 1, as the comment at line 274 words it
splitWrap_early(r) ==
    IF r.sp = Pow2(r.depth) - 1 THEN [r EXCEPT !.depth = @ + 1, !.sp = 0] ELSE r

\* the end of splitSp: sp has reached 2^depth
splitWrap(r) ==
    IF r.sp = Pow2(r.depth) THEN [r EXCEPT !.depth = @ + 1, !.sp = 0] ELSE r

RECURSIVE addToRelation(_, _)
RECURSIVE reinsertPage(_, _, _)
RECURSIVE splitChain(_, _)

\* mutant of reinsertPage: the scan stops one tuple early
reinsertPage_short(m, currPage, i) ==
    IF i >= pageNTuples(currPage) THEN m
    ELSE reinsertPage(addToRelation(m, currPage.data[i]), currPage, i + 1)

\* re-insert the tuples of the in-memory page currPage from position i on
reinsertPage(m, currPage, i) ==
    IF i > pageNTuples(currPage) THEN m
    ELSE reinsertPage(addToRelation(m, currPage.data[i]), currPage, i + 1)

\* variant: the emptied overflow page is not written back
splitChain_noClear(m, currPage) ==
    IF pageOvflow(currPage) = NO_PAGE THEN m
    ELSE LET nextPage == getPage(m.ovflow, pageOvflow(currPage))
         IN splitChain(reinsertPage(m, nextPage, 1), nextPage)

\* the overflow loop of splitSp: currPage is the page scanned last
splitChain(m, currPage) ==
    IF pageOvflow(currPage) = NO_PAGE THEN m
    ELSE LET currId == pageOvflow(currPage)
             nextPage == getPage(m.ovflow, currId)
             new == pageSetOvflow(newPage, pageOvflow(nextPage))
             m1 == [m EXCEPT !.ovflow = putPage(m.ovflow, currId, new)]
         IN splitChain(reinsertPage(m1, nextPage, 1), nextPage)

\* mutant of splitAdvance: the page count is not incremented
splitAdvance_noPage(r) == [r EXCEPT !.sp = @ + 1]

\* the start of splitSp: one more primary page, sp moved forward
splitAdvance(r) == [r EXCEPT !.npages = @ + 1, !.sp = @ + 1]

\* variant: the emptied primary page does not keep the overflow link
splitScan_dropLink(m) ==
    LET data1 == addPage(m.data)
        currPage == getPage(data1, m.r.sp)
        m1 == [m EXCEPT !.data = putPage(data1, m.r.sp, newPage),
                        !.r = splitAdvance(m.r)]
        m2 == reinsertPage(m1, currPage, 1)
    IN splitChain(m2, currPage)

\* splitSp up to the end of the re-inserts: the new page, the emptied
\* primary page, sp moved forward, then the two re-insert loops
splitScan(m) ==
    LET data1 == addPage(m.data)
        currPage == getPage(data1, m.r.sp)
        new == pageSetOvflow(newPage, pageOvflow(currPage))
        m1 == [m EXCEPT !.data = putPage(data1, m.r.sp, new),
                        !.r = splitAdvance(m.r)]
        m2 == reinsertPage(m1, currPage, 1)
    IN splitChain(m2, currPage)

splitSp(m) ==
    LET m3 == splitScan(m)
    IN [m3 EXCEPT !.r = splitWrap(m3.r)]

\* variant: the split check runs after the tuple is placed
addToRelation_splitAfter(m, t) ==
    LET m0 == placeTuple(m, t)
    IN IF splitDue(m0.r)
       THEN LET m1 == splitSp([m0 EXCEPT !.r = [m0.r EXCEPT !.insertion = 0,
                                                            !.splitting = TRUE_]])
            IN [m1 EXCEPT !.r = [m1.r EXCEPT !.splitting = FALSE_]]
       ELSE m0

\* variant: the flag is not set for the split (line 143 left out)
addToRelation_noFlag(m, t) ==
    IF splitDue(m.r)
    THEN placeTuple(splitSp([m EXCEPT !.r = [m.r EXCEPT !.insertion = 0]]), t)
    ELSE placeTuple(m, t)

\* variant: the flag is not cleared after the split (line 145 left out)
addToRelation_noReset(m, t) ==
    IF splitDue(m.r)
    THEN placeTuple(splitSp([m EXCEPT !.r = [m.r EXCEPT !.insertion = 0,
                                                        !.splitting = TRUE_]]), t)
    ELSE placeTuple(m, t)

addToRelation(m, t) ==
    IF splitDue(m.r)
    THEN LET m1 == splitSp([m EXCEPT !.r = [m.r EXCEPT !.insertion = 0,
                                                       !.splitting = TRUE_]])
         IN placeTuple([m1 EXCEPT !.r = [m1.r EXCEPT !.splitting = FALSE_]], t)
    ELSE placeTuple(m, t)

\* -------------------------------------------------------------------- info
\* mutant of infoCounts: sp and depth are written in the wrong order
infoCounts_swapped(r) ==
    << r.nattrs, r.sp, r.depth, r.npages, r.ntups, r.c, r.insertion, r.splitting >>

\* closeRelation writes the first eight counters of the descriptor, in their
\* declared order, and then the choice vector
infoCounts(r) ==
    << r.nattrs, r.depth, r.sp, r.npages, r.ntups, r.c, r.insertion, r.splitting >>

writeInfo(r) == [counts |-> infoCounts(r), cv |-> r.cv]

\* openRelation reads them back into the descriptor, field by field
readInfo(f, mode) ==
    [nattrs |-> f.counts[1], depth |-> f.counts[2], sp |-> f.counts[3],
     npages |-> f.counts[4], ntups |-> f.counts[5], c |-> f.counts[6],
     insertion |-> f.counts[7], splitting |-> f.counts[8],
     cv |-> f.cv, mode |-> IF mode = "r+" THEN "w" ELSE "r"]

\* the descriptor once it has been freed
NoReln ==
    [nattrs |-> 0, depth |-> 0, sp |-> 0, npages |-> 0, ntups |-> 0, c |-> 0,
     insertion |-> 0, splitting |-> FALSE_, cv |-> parseChVec(<< >>), mode |-> "-"]

\* ------------------------------------------------------------------- stats
\* relationStats: per bucket the chain (id, ntuples, freebytes, ovflow)
RECURSIVE statsChain(_, _)
statsChain(ovflow, ovid) ==
    IF ovid = NO_PAGE THEN << >>
    ELSE LET p == getPage(ovflow, ovid)
         IN << << ovid, pageNTuples(p), pageFreeSpace(p), pageOvflow(p) >> >>
            \o statsChain(ovflow, pageOvflow(p))

relationStats(r, data, ovflow) ==
    [global |-> << r.nattrs, r.npages, r.ntups, r.depth, r.sp >>,
     buckets |-> [pid \in 0..(r.npages - 1) |->
                    LET p == getPage(data, pid)
                    IN << << pid, pageNTuples(p), pageFreeSpace(p), pageOvflow(p) >> >>
                       \o statsChain(ovflow, pageOvflow(p))]]

\* ------------------------------------------------------------------- query
\* struct QueryRep; curtup moves in step with nTupleScanned and is the
\* position nTupleScanned + 1 in the data of curpage.  Two fields record
\* what the scan has done: fetched, the ids of the primary pages read with
\* getPage, and ncalls, the getNextTuple calls made; held is the number of
\* page buffers the scan holds (curpage, until it is freed at line 149), and
\* curid tells which page of which file curpage is a copy of.
NoQuery ==
    [open |-> FALSE, done |-> FALSE, query |-> 0, known |-> {}, unknown |-> {},
     nstars |-> 0, starBits |-> << >>, bitSeq |-> {}, bitSeqMax |-> {},
     curpage |-> newPage, nTupleScanned |-> 0, fetched |-> << >>, ncalls |-> 0,
     held |-> 0, curid |-> [file |-> "-", id |-> NO_PAGE]]

\* known bits and star bits of choice-vector positions i..depth
RECURSIVE compileBits(_, _, _, _)
compileBits(r, pat, i, acc) ==
    IF i >= r.depth + 1 THEN acc
    ELSE LET v == patternVals(pat, r.cv[i].att)
         IN IF v # "?"
            THEN compileBits(r, pat, i + 1,
                     IF bitIsSet(hash_any(v), r.cv[i].bit)
                     THEN [acc EXCEPT !.known = setBit(@, i)]
                     ELSE acc)
            ELSE compileBits(r, pat, i + 1,
                     [acc EXCEPT !.starBits = Append(@, i), !.nstars = @ + 1])

\* bitSeqMax: bits 0..nstars-1 set
RECURSIVE lowOnes(_)

\* mutant of lowOnes: the top star bit is left out
lowOnes_short(n) == IF n = 0 THEN {} ELSE { i \in 0..(n - 2) : TRUE }

lowOnes(n) == IF n = 0 THEN {} ELSE setBit(lowOnes(n - 1), n - 1)

\* the unknown bits: bit i of bitSeq goes to position starBits[i]
RECURSIVE formUnknown(_, _, _)
formUnknown(starBits, bitSeq, i) ==
    IF i = 0 THEN {}
    ELSE LET u == formUnknown(starBits, bitSeq, i - 1)
         IN IF bitIsSet(bitSeq, i - 1) THEN setBit(u, starBits[i]) ELSE u

startQuery(r, data, pat) ==
    LET c == compileBits(r, pat, 0, [NoQuery EXCEPT !.open = TRUE, !.query = pat])
        unknown == formUnknown(c.starBits, {}, c.nstars)
        malHash == BitOr(unknown, c.known)
        p == bucketOf(r, malHash)
    IN [c EXCEPT !.bitSeq = {}, !.bitSeqMax = lowOnes(c.nstars),
                 !.unknown = unknown,
                 !.curpage = getPage(data, p), !.nTupleScanned = 0,
                 !.curid = [file |-> "data", id |-> p],
                 !.fetched = << p >>, !.held = 1]

\* scan the rest of the current page: [q, result]
RECURSIVE scanPage(_, _)

\* mutant of scanPage: the tuple is returned without the match test
scanPage_any(nattrs, q) ==
    IF q.nTupleScanned < pageNTuples(q.curpage)
    THEN [q |-> [q EXCEPT !.nTupleScanned = @ + 1],
          result |-> q.curpage.data[q.nTupleScanned + 1]]
    ELSE [q |-> q, result |-> NULL]

scanPage(nattrs, q) ==
    IF q.nTupleScanned < pageNTuples(q.curpage)
    THEN LET t == q.curpage.data[q.nTupleScanned + 1]
             q1 == [q EXCEPT !.nTupleScanned = @ + 1]
         IN IF tupleMatch(nattrs, q.query, t)
            THEN [q |-> q1, result |-> t]
            ELSE scanPage(nattrs, q1)
    ELSE [q |-> q, result |-> NULL]

\* scan the overflow pages that follow the current page
RECURSIVE scanOvflow(_, _, _)
\* variant: the position in the page is not reset for the overflow page
scanOvflow_keepPos(nattrs, ovflow, q) ==
    IF pageOvflow(q.curpage) = NO_PAGE THEN [q |-> q, result |-> NULL]
    ELSE LET s == scanPage(nattrs,
                      [q EXCEPT !.curpage = getPage(ovflow, pageOvflow(q.curpage)),
                                !.curid = [file |-> "ovflow",
                                           id |-> pageOvflow(q.curpage)]])
         IN IF s.result # NULL THEN s ELSE scanOvflow(nattrs, ovflow, s.q)

scanOvflow(nattrs, ovflow, q) ==
    IF pageOvflow(q.curpage) = NO_PAGE THEN [q |-> q, result |-> NULL]
    ELSE LET s == scanPage(nattrs,
                      [q EXCEPT !.curpage = getPage(ovflow, pageOvflow(q.curpage)),
                                !.curid = [file |-> "ovflow",
                                           id |-> pageOvflow(q.curpage)],
                                !.nTupleScanned = 0])
         IN IF s.result # NULL THEN s ELSE scanOvflow(nattrs, ovflow, s.q)

\* variant: the usual addressing also when position depth is a star bit
nextPageId_usual(r, q, malHash) == bucketOf(r, malHash)

\* whether the page of the next bitSeq is fetched (position depth is a star
\* bit: only if the depth+1-bit address is a page of the file)
nextPageId(r, q, malHash) ==
    IF q.starBits[q.nstars] # r.depth
    THEN bucketOf(r, malHash)
    ELSE LET p == getLower(malHash, r.depth + 1)
         IN IF p < r.npages THEN p ELSE NO_PAGE

\* variant: the scan position is reset also when no page is fetched
nextBucket_rescan(r, data, q) ==
    LET bitSeq == BitsInc(q.bitSeq)
        unknown == formUnknown(q.starBits, bitSeq, q.nstars)
        p == nextPageId(r, q, BitOr(unknown, q.known))
        q1 == [q EXCEPT !.bitSeq = bitSeq, !.unknown = unknown,
                        !.nTupleScanned = 0]
    IN IF p # NO_PAGE
       THEN [q1 EXCEPT !.curpage = getPage(data, p),
                       !.curid = [file |-> "data", id |-> p],
                       !.fetched = Append(@, p)]
       ELSE q1

\* variant: when no page is to be fetched, the primary page fetched last is
\* fetched again
nextBucket_refetch(r, data, q) ==
    LET bitSeq == BitsInc(q.bitSeq)
        unknown == formUnknown(q.starBits, bitSeq, q.nstars)
        p == nextPageId(r, q, BitOr(unknown, q.known))
        last == q.fetched[Len(q.fetched)]
        q1 == [q EXCEPT !.bitSeq = bitSeq, !.unknown = unknown]
    IN [q1 EXCEPT !.curpage = getPage(data, IF p # NO_PAGE THEN p ELSE last),
                  !.curid = [file |-> "data", id |-> IF p # NO_PAGE THEN p ELSE last],
                  !.nTupleScanned = 0,
                  !.fetched = Append(@, IF p # NO_PAGE THEN p ELSE last)]

\* move to the next bucket
nextBucket(r, data, q) ==
    LET bitSeq == BitsInc(q.bitSeq)
        unknown == formUnknown(q.starBits, bitSeq, q.nstars)
        p == nextPageId(r, q, BitOr(unknown, q.known))
        q1 == [q EXCEPT !.bitSeq = bitSeq, !.unknown = unknown]
    IN IF p # NO_PAGE
       THEN [q1 EXCEPT !.curpage = getPage(data, p), !.nTupleScanned = 0,
                       !.curid = [file |-> "data", id |-> p],
                       !.fetched = Append(@, p)]
       ELSE q1

RECURSIVE getNextTuple(_, _, _, _)
getNextTuple(r, data, ovflow, q) ==
    LET s1 == scanPage(r.nattrs, q)
    IN IF s1.result # NULL THEN s1
       ELSE LET s2 == scanOvflow(r.nattrs, ovflow, s1.q)
            IN IF s2.result # NULL THEN s2
               ELSE IF s2.q.bitSeq = s2.q.bitSeqMax
                    THEN [q |-> [s2.q EXCEPT !.done = TRUE, !.held = @ - 1],
                          result |-> NULL]
                    ELSE getNextTuple(r, data, ovflow, nextBucket(r, data, s2.q))

\* every result of a query on pat, in the order getNextTuple returns them
RECURSIVE drainQuery(_, _, _, _)
drainQuery(r, data, ovflow, q) ==
    LET s == getNextTuple(r, data, ovflow, q)
    IN IF s.result = NULL THEN << >>
       ELSE << s.result >> \o drainQuery(r, data, ovflow, s.q)

selectAll(r, data, ovflow, pat) ==
    drainQuery(r, data, ovflow, startQuery(r, data, pat))

\* ------------------------------------------------------------ state machine
VARIABLES
    r,          \* the relation descriptor (NoReln while the relation is closed)
    opened,     \* whether the relation is open
    info,       \* the info file
    data,       \* the primary data file
    ovflow,     \* the overflow file
    q,          \* the query scan (NoQuery while none is open)
    result,     \* what the last getNextTuple returned
    ret,        \* what the last addToRelation returned
    lastT,      \* history: the tuple of the last addToRelation (0: none yet)
    held,       \* page buffers the last addToRelation left unreleased
    created,    \* the arguments newRelation was called with
    nadd,       \* history: addToRelation calls so far
    nsplits,    \* history: splits so far
    inserted,   \* history: the tuples of the calls that returned a bucket
    results,    \* history: the tuples the open query has returned so far
    snap        \* history: descriptor, statistics and contents at the last close

vars == << r, opened, info, data, ovflow, q, result, ret, lastT, held, created,
           nadd, nsplits, inserted, results, snap >>

\* the relations created: nattrs = 51 gives c = 2; the choice vectors are
\* "0:0,1:0,0:1,1:1" and "1:0,0:0,0:1,1:1"
Configs ==
    { [nattrs |-> 51, npages |-> 1, d |-> 0,
       cv |-> << <<0, 0>>, <<1, 0>>, <<0, 1>>, <<1, 1>> >>],
      [nattrs |-> 51, npages |-> 2, d |-> 1,
       cv |-> << <<0, 0>>, <<1, 0>>, <<0, 1>>, <<1, 1>> >>],
      [nattrs |-> 51, npages |-> 4, d |-> 2,
       cv |-> << <<1, 0>>, <<0, 0>>, <<0, 1>>, <<1, 1>> >>] }

RECURSIVE emptyFile(_)
emptyFile(n) == IF n = 0 THEN << >> ELSE addPage(emptyFile(n - 1))

Snapshot(rr, dd, oo) ==
    [valid |-> TRUE, desc |-> rr, stats |-> relationStats(rr, dd, oo),
     all |-> selectAll(rr, dd, oo, AllStars)]

NoSnap == [valid |-> FALSE, desc |-> NoReln, stats |-> << >>, all |-> << >>]

\* newRelation: the descriptor is built, the files are created, npages empty
\* pages are appended and the relation is closed again
Init ==
    \E cf \in Configs :
        LET r0 == Reln(cf.nattrs, cf.npages, cf.d, cf.cv)
        IN /\ r = NoReln
           /\ opened = FALSE
           /\ info = writeInfo(r0)
           /\ data = emptyFile(cf.npages)
           /\ ovflow = << >>
           /\ q = NoQuery
           /\ result = NULL
           /\ ret = NO_PAGE
           /\ lastT = 0
           /\ held = 0
           /\ created = cf
           /\ nadd = 0
           /\ nsplits = 0
           /\ inserted = EmptyBag
           /\ results = << >>
           /\ snap = Snapshot(r0, emptyFile(cf.npages), << >>)

OpenRelation(mode) ==
    /\ ~opened
    /\ r' = readInfo(info, mode)
    /\ opened' = TRUE
    /\ snap' = NoSnap
    /\ UNCHANGED << info, data, ovflow, q, result, ret, lastT, held, created,
                    nadd, nsplits, inserted, results >>

CloseRelation ==
    /\ opened
    /\ ~q.open
    /\ info' = IF r.mode = "w" THEN writeInfo(r) ELSE info
    /\ r' = NoReln
    /\ opened' = FALSE
    /\ snap' = Snapshot(r, data, ovflow)
    /\ UNCHANGED << data, ovflow, q, result, ret, lastT, held, created,
                    nadd, nsplits, inserted, results >>

\* insert: the insert command opens the relation "r+"; no scan is in progress
AddToRelation(t) ==
    /\ opened
    /\ r.mode = "w"
    /\ ~q.open
    /\ nadd < MaxInserts
    /\ LET m == addToRelation(Mach(r, data, ovflow), t)
       IN /\ r' = m.r
          /\ data' = m.data
          /\ ovflow' = m.ovflow
          /\ ret' = m.ret
          /\ lastT' = t
          /\ held' = m.held
          /\ inserted' = IF m.ret # NO_PAGE THEN inserted (+) SetToBag({t})
                         ELSE inserted
    /\ nadd' = nadd + 1
    /\ nsplits' = IF splitDue(r) THEN nsplits + 1 ELSE nsplits
    /\ UNCHANGED << opened, info, q, result, created, results, snap >>

\* select: the select command opens the relation "r"
StartQuery(pat) ==
    /\ opened
    /\ r.mode = "r"
    /\ ~q.open
    /\ q' = startQuery(r, data, pat)
    /\ results' = << >>
    /\ result' = NULL
    /\ UNCHANGED << r, opened, info, data, ovflow, ret, lastT, held, created,
                    nadd, nsplits, inserted, snap >>

GetNextTuple ==
    /\ q.open
    /\ ~q.done
    /\ LET s == getNextTuple(r, data, ovflow, q)
       IN /\ q' = [s.q EXCEPT !.ncalls = @ + 1]
          /\ result' = s.result
          /\ results' = IF s.result # NULL THEN Append(results, s.result)
                        ELSE results
    /\ UNCHANGED << r, opened, info, data, ovflow, ret, lastT, held, created,
                    nadd, nsplits, inserted, snap >>

\* the caller closes the scan once it has returned NULL
CloseQuery ==
    /\ q.open
    /\ q.done
    /\ q' = NoQuery
    /\ results' = << >>
    /\ result' = NULL
    /\ UNCHANGED << r, opened, info, data, ovflow, ret, lastT, held, created,
                    nadd, nsplits, inserted, snap >>

Next ==
    \/ \E mode \in {"r", "r+"} : OpenRelation(mode)
    \/ CloseRelation
    \/ \E t \in TupleIds : AddToRelation(t)
    \/ \E pat \in PatternIds : StartQuery(pat)
    \/ GetNextTuple
    \/ CloseQuery

Spec == Init /\ [][Next]_vars

\* ------------------------------------------- inserts during an open scan
\* The functions of reln.c and query.c can also be called in this order by
\* one client: the relation opened "r+", a scan started on it, and
\* addToRelation called between two getNextTuple calls.  The scan keeps its
\* pointer to the descriptor (q->rel) and its page buffer (q->curpage).
MaxInterleaved == 3

InsertInScan(t) ==
    /\ opened
    /\ r.mode = "w"
    /\ nadd < MaxInterleaved
    /\ LET m == addToRelation(Mach(r, data, ovflow), t)
       IN /\ r' = m.r
          /\ data' = m.data
          /\ ovflow' = m.ovflow
          /\ ret' = m.ret
          /\ lastT' = t
          /\ held' = m.held
          /\ inserted' = IF m.ret # NO_PAGE THEN inserted (+) SetToBag({t})
                         ELSE inserted
    /\ nadd' = nadd + 1
    /\ nsplits' = IF splitDue(r) THEN nsplits + 1 ELSE nsplits
    /\ UNCHANGED << opened, info, q, result, created, results, snap >>

StartQueryRW(pat) ==
    /\ opened
    /\ r.mode = "w"
    /\ ~q.open
    /\ q' = startQuery(r, data, pat)
    /\ results' = << >>
    /\ result' = NULL
    /\ UNCHANGED << r, opened, info, data, ovflow, ret, lastT, held, created,
                    nadd, nsplits, inserted, snap >>

NextInterleaved ==
    \/ OpenRelation("r+")
    \/ CloseRelation
    \/ \E t \in TupleIds : InsertInScan(t)
    \/ \E pat \in PatternIds : StartQueryRW(pat)
    \/ GetNextTuple
    \/ CloseQuery

SpecInterleaved == Init /\ [][NextInterleaved]_vars

\* ------------------------------------------------------------ observations
\* the descriptor at rest: in memory while open, in the info file otherwise
Desc == IF opened THEN r ELSE readInfo(info, "r")

\* the tuples of the overflow chain that starts at page ovid, in chain order
RECURSIVE chainTuples(_, _)
chainTuples(oo, ovid) ==
    IF ovid = NO_PAGE THEN << >>
    ELSE getPage(oo, ovid).data \o chainTuples(oo, pageOvflow(getPage(oo, ovid)))

\* the tuples of bucket b: its primary page, then its overflow chain
bucketTuples(dd, oo, b) ==
    getPage(dd, b).data \o chainTuples(oo, pageOvflow(getPage(dd, b)))

RECURSIVE SeqToBag(_)
SeqToBag(sq) ==
    IF sq = << >> THEN EmptyBag
    ELSE SetToBag({Head(sq)}) (+) SeqToBag(Tail(sq))

RECURSIVE storedUpTo(_, _, _)
storedUpTo(dd, oo, b) ==
    IF b < 0 THEN EmptyBag
    ELSE SeqToBag(bucketTuples(dd, oo, b)) (+) storedUpTo(dd, oo, b - 1)

\* the bag of all tuples stored in the buckets 0..npages-1
stored == storedUpTo(data, ovflow, Desc.npages - 1)

Range(sq) == { sq[i] : i \in 1..Len(sq) }

\* some bucket holds a tuple on an overflow page
SomeOvflowTuple ==
    \E b \in 0..(Desc.npages - 1) :
        chainTuples(ovflow, pageOvflow(getPage(data, b))) # << >>

\* an insert has failed
SomeFailedInsert == nadd > BagCardinality(inserted)

\* ------------------------------------------------------------------ claims
\* the MAH address as the addressing rule states it: the low depth bits of
\* the composite hash, and the low depth+1 bits if that is below sp
mahAddress(d, sp, h) ==
    IF Val({ i \in h : i < d }) < sp
    THEN Val({ i \in h : i < d + 1 })
    ELSE Val({ i \in h : i < d })

\* C1 - address consistency: every tuple stored in bucket b (primary page or
\* overflow chain) has MAH address b under the current (depth, sp).
C1_AddressConsistency ==
    \A b \in 0..(Desc.npages - 1) :
        \A t \in Range(bucketTuples(data, ovflow, b)) :
            mahAddress(Desc.depth, Desc.sp, tupleHash(Desc.cv, t)) = b

\* two splits have happened, a split half (a bucket >= 2^depth or < sp) holds
\* a tuple and some tuple sits on an overflow page
C1_Witness ==
    /\ nsplits >= 2
    /\ Desc.sp > 0
    /\ bucketTuples(data, ovflow, Desc.npages - 1) # << >>
    /\ SomeOvflowTuple

\* C2 - count consistency: npages = 2^depth + sp after every addToRelation,
\* and the primary file holds npages pages.
C2_CountConsistency ==
    /\ Desc.npages = Pow2(Desc.depth) + Desc.sp
    /\ Len(data) = Desc.npages

\* a split has happened and the last insert failed
C2_Witness ==
    /\ nsplits >= 2
    /\ ret = NO_PAGE
    /\ nadd > 0
    /\ Desc.sp > 0

\* C6 - tuple count: ntups is the number of addToRelation calls that returned
\* a bucket, and the number of tuples stored in all buckets.
C6_TupleCount ==
    /\ Desc.ntups = BagCardinality(inserted)
    /\ Desc.ntups = BagCardinality(stored)

\* splits have re-inserted tuples and an insert has failed
C6_Witness ==
    /\ nsplits >= 2
    /\ SomeFailedInsert
    /\ Desc.ntups >= 4

\* how often tuple t occurs in sequence sq
Occurrences(sq, t) == Cardinality({ i \in 1..Len(sq) : sq[i] = t })

\* the scan of the open query has returned NULL
QueryDone == q.open /\ q.done

\* position depth of the choice vector is a star bit of the open query
StarAtDepth == q.nstars > 0 /\ q.starBits[q.nstars] = r.depth

\* the page fetched for bitSeq = n (NO_PAGE when none is fetched)
pageOfBitSeq(n) ==
    LET sq == lowOnes(q.nstars)
        bs == CHOOSE v \in SUBSET sq : Val(v) = n
        malHash == BitOr(formUnknown(q.starBits, bs, q.nstars), q.known)
    IN IF n = 0 THEN bucketOf(r, malHash) ELSE nextPageId(r, q, malHash)

\* the buckets enumerated for bitSeq = 0..bitSeqMax
enumerated == { pageOfBitSeq(n) : n \in 0..Val(q.bitSeqMax) } \ {NO_PAGE}

\* C3 - split idempotence: a full-wildcard scan run to NULL has returned
\* exactly the bag of the tuples inserted.
C3_SplitIdempotence ==
    (QueryDone /\ q.query = AllStars) => SeqToBag(results) = inserted

\* a full-wildcard scan has ended after two splits, with tuples on overflow
\* pages and a tuple inserted twice
C3_Witness ==
    /\ QueryDone
    /\ q.query = AllStars
    /\ nsplits >= 2
    /\ SomeOvflowTuple
    /\ \E t \in TupleIds : Occurrences(results, t) >= 2

\* C4 - query completeness: a scan run to NULL has returned every inserted
\* tuple that matches the pattern, as often as it was inserted, and the
\* buckets enumerated for bitSeq = 0..bitSeqMax cover the bucket of every
\* stored matching tuple.
C4_QueryCompleteness ==
    /\ QueryDone =>
         \A t \in TupleIds :
            tupleMatch(r.nattrs, q.query, t) =>
                Occurrences(results, t) >= CopiesIn(t, inserted)
    /\ q.open =>
         \A en \in {enumerated} :
         \A b \in 0..(r.npages - 1) :
            \A t \in Range(bucketTuples(data, ovflow, b)) :
                tupleMatch(r.nattrs, q.query, t) => b \in en

\* a scan with a star bit below position depth, position depth known, has
\* ended while sp >= 2, and has returned a tuple of a split half
C4_Witness ==
    /\ QueryDone
    /\ q.nstars > 0
    /\ ~StarAtDepth
    /\ r.sp >= 2
    /\ BagCardinality(inserted) > Len(results)
    /\ \E b \in Pow2(r.depth)..(r.npages - 1) :
          \E t \in Range(bucketTuples(data, ovflow, b)) : t \in Range(results)

\* a scan with position depth a star bit has ended with results taken from a
\* split half while sp > 0
C4_WitnessStar ==
    /\ QueryDone
    /\ StarAtDepth
    /\ q.query # AllStars
    /\ r.sp > 0
    /\ results # << >>

\* C5 - query soundness: every tuple a scan has returned is stored in the
\* relation and agrees with the pattern on every non-wildcard attribute.
C5_QuerySoundness ==
    q.open =>
        /\ \A st \in {stored} : \A t \in Range(results) :
              /\ BagIn(t, st)
              /\ \A i \in 0..(r.nattrs - 1) :
                    patternVals(q.query, i) # "?" =>
                        tupleVals(t, i) = patternVals(q.query, i)
        /\ result # NULL => result \in Range(results)

\* a scan has returned a tuple while the relation holds a tuple that does not
\* match the pattern
C5_Witness ==
    /\ q.open
    /\ result # NULL
    /\ \E t \in BagToSet(stored) : ~tupleMatch(r.nattrs, q.query, t)
    /\ nsplits >= 1

\* C7 - split progression, as claimed: from depth 0 and one page the first
\* split leaves (depth, sp, npages) = (0, 1, 2) and the second (1, 0, 2).
C7_AsClaimed ==
    created.d = 0 =>
        /\ nsplits = 1 => (Desc.depth = 0 /\ Desc.sp = 1 /\ Desc.npages = 2)
        /\ nsplits = 2 => (Desc.depth = 1 /\ Desc.sp = 0 /\ Desc.npages = 2)

\* C7 - split progression, amended: from depth 0 and one page no split
\* happens before insert c + 1; the first split leaves (depth, sp, npages) =
\* (1, 0, 2) and the second (1, 1, 3).
C7_SplitProgression ==
    created.d = 0 =>
        /\ nsplits = 0 => (Desc.depth = 0 /\ Desc.sp = 0 /\ Desc.npages = 1)
        /\ nsplits = 0 => BagCardinality(inserted) <= Desc.c
        /\ nsplits = 1 => (Desc.depth = 1 /\ Desc.sp = 0 /\ Desc.npages = 2)
        /\ nsplits = 2 => (Desc.depth = 1 /\ Desc.sp = 1 /\ Desc.npages = 3)

\* the relation created with depth 0 has been split twice
C7_Witness == created.d = 0 /\ nsplits = 2 /\ opened

\* C8 - a failed insert, as claimed: an addToRelation that returns NO_PAGE
\* leaves every existing page as it was (contents and ovflow link), at most
\* appends pages to the overflow file, and leaves ntups and insertion alone.
C8_FailedInsertFrame ==
    [][(nadd' = nadd + 1 /\ ret' = NO_PAGE) =>
          /\ data' = data
          /\ Len(ovflow') >= Len(ovflow)
          /\ SubSeq(ovflow', 1, Len(ovflow)) = ovflow
          /\ r'.ntups = r.ntups
          /\ r'.insertion = r.insertion]_vars

\* C9 - round-trip persistence: a relation closed in write mode reopens with
\* the same eight counters and choice vector, the same statistics and the
\* same full-wildcard result.
C9_RoundTrip ==
    [][(~opened /\ opened' /\ snap.desc.mode = "w") =>
          /\ r'.nattrs = snap.desc.nattrs /\ r'.depth = snap.desc.depth
          /\ r'.sp = snap.desc.sp /\ r'.npages = snap.desc.npages
          /\ r'.ntups = snap.desc.ntups /\ r'.c = snap.desc.c
          /\ r'.insertion = snap.desc.insertion
          /\ r'.splitting = snap.desc.splitting
          /\ r'.cv = snap.desc.cv
          /\ relationStats(r', data', ovflow') = snap.stats
          /\ SeqToBag(selectAll(r', data', ovflow', AllStars)) = SeqToBag(snap.all)
          /\ SeqToBag(snap.all) = inserted]_vars

\* a relation that was split and holds overflow tuples has been closed in
\* write mode and reopened
C9_Witness ==
    /\ opened
    /\ r.mode = "r"
    /\ nsplits >= 2
    /\ r.sp > 0
    /\ r.insertion > 0
    /\ SomeOvflowTuple

\* C10 - the insertion counter, as claimed: at rest insertion < c.
C10_AsClaimed == Desc.insertion < Desc.c

\* C10 - the insertion counter, amended (for c >= 1): at rest insertion <= c;
\* it is c from the c-th successful insert after a split until the next
\* addToRelation call, which splits and resets it.
C10_InsertionBound == Desc.c >= 1 => Desc.insertion <= Desc.c

\* after a split the counter is at c again
C10_Witness == nsplits >= 1 /\ Desc.insertion = Desc.c /\ Desc.c >= 1

\* C11 - at rest (between addToRelation calls, open or closed) the split
\* pointer satisfies 0 <= sp < 2^depth and the splitting flag is false; the
\* flag set by addToRelation is still set when splitSp returns, so it is
\* cleared by addToRelation alone and is true only during the split.
C11_RestInvariant ==
    /\ Desc.sp >= 0
    /\ Desc.sp < Pow2(Desc.depth)
    /\ Desc.splitting = FALSE_
    /\ (opened /\ r.mode = "w") =>
           splitSp(Mach([r EXCEPT !.insertion = 0, !.splitting = TRUE_],
                        data, ovflow)).r.splitting = TRUE_

\* two splits have run, the second past a depth increase, and the split
\* pointer is inside the round
C11_Witness ==
    /\ nsplits >= 2
    /\ Desc.depth > created.d
    /\ Desc.sp > 0
    /\ Desc.ntups >= 4

\* C12 - wildcard enumeration bound: a scan with nstars star bits among the
\* positions 0..depth has fetched at most 2^nstars primary pages, and no
\* primary page twice, also when position depth is a star bit and sp > 0.
C12_EnumerationBound ==
    q.open =>
        /\ Len(q.fetched) <= Pow2(q.nstars)
        /\ \A i, j \in 1..Len(q.fetched) : i # j => q.fetched[i] # q.fetched[j]

\* a scan with position depth a star bit, on a relation with sp > 0, has
\* ended after fetching three or more pages and skipping an absent one
C12_Witness ==
    /\ QueryDone
    /\ StarAtDepth
    /\ r.sp > 0
    /\ Len(q.fetched) >= 3
    /\ Len(q.fetched) < Pow2(q.nstars)

\* C13 - query termination: every getNextTuple call returns a tuple or NULL,
\* NULL comes after at most one call per stored tuple plus one, and on an
\* empty relation the first call returns NULL.
C13_Termination ==
    q.open =>
        /\ q.ncalls = Len(results) + (IF q.done THEN 1 ELSE 0)
        /\ q.done => result = NULL
        /\ \A st \in {stored} :
              /\ q.ncalls <= BagCardinality(st) + 1
              /\ (st = EmptyBag /\ q.ncalls >= 1) => (q.done /\ q.ncalls = 1)

\* a scan over several buckets and an overflow chain has returned NULL at
\* the last call the bound allows
C13_Witness ==
    /\ QueryDone
    /\ BagCardinality(stored) >= 4
    /\ q.ncalls = BagCardinality(stored) + 1
    /\ SomeOvflowTuple
    /\ Len(q.fetched) >= 3

\* the first call of a scan of an empty relation has returned NULL
C13_WitnessEmpty == QueryDone /\ stored = EmptyBag /\ q.ncalls = 1

\* C14 - insert result: a successful addToRelation returns the id of the
\* primary page of the tuple's bucket, which is the tuple's MAH address under
\* the (depth, sp) left by the call (after its split, if it made one), and
\* the tuple is then in that bucket; NO_PAGE is returned only for a tuple
\* that does not fit an empty page.
C14_InsertResult ==
    [][(nadd' = nadd + 1) =>
          /\ ret' # NO_PAGE =>
                /\ ret' = mahAddress(r'.depth, r'.sp, tupleHash(r'.cv, lastT'))
                /\ ret' \in 0..(r'.npages - 1)
                /\ lastT' \in Range(bucketTuples(data', ovflow', ret'))
          /\ ret' = NO_PAGE => ~pageHasRoom(r'.nattrs, newPage, lastT')]_vars

\* the last call split (no insert has failed and the counter is back at 1),
\* returned a bucket id, and its tuple is on an overflow page of that bucket
C14_Witness ==
    /\ opened
    /\ r.mode = "w"
    /\ nsplits >= 1
    /\ nadd = BagCardinality(inserted)
    /\ r.insertion = 1
    /\ ret # NO_PAGE
    /\ lastT \notin Range(getPage(data, ret).data)
    /\ lastT \in Range(chainTuples(ovflow, pageOvflow(getPage(data, ret))))

\* the bag of the tuples of bucket b in the files dd, oo
bucketBag(dd, oo, b) == SeqToBag(bucketTuples(dd, oo, b))

\* the bag holding t once if cond holds, and nothing otherwise
BagIf(cond, t) == IF cond THEN SetToBag({t}) ELSE EmptyBag

\* C16 - split confinement: a call that splits bucket s = sp at depth d
\* leaves in the buckets s and s + 2^d together exactly the tuples bucket s
\* held (primary page and whole chain), and leaves the tuples of every other
\* bucket as they were; the tuple the call itself inserts is the one
\* addition, in the bucket the call returns.
C16_SplitConfinement ==
    [][(nsplits' = nsplits + 1) =>
          LET s == r.sp
              buddy == r.sp + Pow2(r.depth)
          IN /\ buddy = r'.npages - 1
             /\ bucketBag(data', ovflow', s) (+) bucketBag(data', ovflow', buddy)
                   = bucketBag(data, ovflow, s)
                       (+) BagIf(ret' \in {s, buddy}, lastT')
             /\ \A b \in 0..(r.npages - 1) \ {s} :
                   IF ret' = b
                   THEN bucketBag(data', ovflow', b)
                          = bucketBag(data, ovflow, b) (+) SetToBag({lastT'})
                   ELSE bucketTuples(data', ovflow', b)
                          = bucketTuples(data, ovflow, b)]_vars

\* the bucket the last call split (no insert has failed and the counter is
\* back at 1, so the last call split)
lastSplit == IF r.sp > 0 THEN r.sp - 1 ELSE Pow2(r.depth - 1) - 1

\* the second split found three or more tuples in its bucket, so a chain,
\* and left some in the bucket and some in the buddy; the new tuple went
\* to another bucket
C16_Witness ==
    /\ opened
    /\ r.mode = "w"
    /\ nsplits >= 2
    /\ nadd = BagCardinality(inserted)
    /\ r.insertion = 1
    /\ ret \notin {lastSplit, r.npages - 1}
    /\ Len(bucketTuples(data, ovflow, lastSplit)) >= 1
    /\ Len(bucketTuples(data, ovflow, r.npages - 1)) >= 1
    /\ Len(bucketTuples(data, ovflow, lastSplit))
          + Len(bucketTuples(data, ovflow, r.npages - 1)) >= 3

\* C17 - counter suppression and no nested split: a call that splits adds
\* exactly one primary page, and ntups and insertion after it are the ntups
\* before it and 0, plus one each for the call's own tuple if it was stored;
\* the split taken alone leaves ntups as it was and insertion at 0.
C17_CounterSuppression ==
    [][(nsplits' = nsplits + 1) =>
          LET k == IF ret' # NO_PAGE THEN 1 ELSE 0
              m1 == splitSp(Mach([r EXCEPT !.insertion = 0, !.splitting = TRUE_],
                                 data, ovflow))
          IN /\ r'.ntups = r.ntups + k
             /\ r'.insertion = k
             /\ r'.npages = r.npages + 1
             /\ Len(data') = Len(data) + 1
             /\ m1.r.ntups = r.ntups
             /\ m1.r.insertion = 0
             /\ m1.r.npages = r.npages + 1]_vars

\* the last call split a bucket whose re-inserted tuples filled its primary
\* page and went on to its chain, and stored its own tuple elsewhere
C17_Witness ==
    /\ opened
    /\ r.mode = "w"
    /\ nsplits >= 2
    /\ nadd = BagCardinality(inserted)
    /\ r.insertion = 1
    /\ r.ntups = nadd
    /\ ret # lastSplit
    /\ getPage(data, lastSplit).data # << >>
    /\ chainTuples(ovflow, pageOvflow(getPage(data, lastSplit))) # << >>

\* C18 - split timing: on a relation with c >= 1 on which no insert has
\* failed, the insert number n leaves floor((n-1)/c) splits made and npages
\* at its initial value plus that number, whatever the tuples are, and a
\* call splits exactly when its number is k*c + 1 for the k-th split.
C18_SplitTiming ==
    [][(nadd' = nadd + 1 /\ nadd' = BagCardinality(inserted') /\ r'.c >= 1) =>
          /\ nsplits' = (nadd' - 1) \div r'.c
          /\ r'.npages = created.npages + ((nadd' - 1) \div r'.c)
          /\ Len(data') = r'.npages
          /\ (nsplits' = nsplits + 1) <=>
                (nsplits' >= 1 /\ nadd' = nsplits' * r'.c + 1)
          /\ (nsplits' = nsplits + 1) <=> (r'.npages = r.npages + 1)]_vars

\* five inserts, none failed, with c = 2: the second split was made by the
\* fifth call
C18_Witness ==
    /\ opened
    /\ r.mode = "w"
    /\ r.c = 2
    /\ nadd = 5
    /\ BagCardinality(inserted) = 5
    /\ nsplits = 2
    /\ r.npages = created.npages + 2

\* the low k bits of the composite hash of tuple t
lowBits(t, k) == Val({ i \in tupleHash(Desc.cv, t) : i < k })

RECURSIVE chainIds(_, _)
chainIds(oo, ovid) ==
    IF ovid = NO_PAGE THEN << >>
    ELSE << ovid >> \o chainIds(oo, pageOvflow(getPage(oo, ovid)))

\* the files as the placement part of the call finds them: after the split
\* if the call splits, else as they are
beforePlacement ==
    IF nsplits' = nsplits + 1
    THEN splitSp(Mach([r EXCEPT !.insertion = 0, !.splitting = TRUE_],
                      data, ovflow))
    ELSE Mach(r, data, ovflow)

\* C20 - first-fit placement: a successful addToRelation puts the tuple on
\* the first page of its bucket with room for it, primary page first and
\* then the overflow pages in chain order, and changes no other page; when
\* no page of the bucket has room it appends one overflow page that holds
\* the tuple alone with ovflow = NO_PAGE, and sets the ovflow of the old
\* tail (of the primary page when there was no chain) to it, all other
\* pages and links staying as they were.
C20_FirstFit ==
    [][(nadd' = nadd + 1 /\ ret' # NO_PAGE) =>
          \A m0 \in {beforePlacement} :
          \A ids \in {chainIds(m0.ovflow, pageOvflow(getPage(m0.data, ret')))} :
          LET n == r.nattrs
              b == ret'
              t == lastT'
              pg == getPage(m0.data, b)
              pages == << pg >> \o [i \in 1..Len(ids) |-> getPage(m0.ovflow, ids[i])]
              fit == { i \in 1..Len(pages) : pageHasRoom(n, pages[i], t) }
              first == CHOOSE i \in fit : \A j \in fit : i <= j
              newp == Len(m0.ovflow)
          IN IF fit # {}
             THEN IF first = 1
                  THEN /\ data' = putPage(m0.data, b, addToPage(n, pg, t))
                       /\ ovflow' = m0.ovflow
                  ELSE /\ data' = m0.data
                       /\ ovflow' = putPage(m0.ovflow, ids[first - 1],
                                            addToPage(n, pages[first], t))
             ELSE /\ Len(ovflow') = newp + 1
                  /\ getPage(ovflow', newp).data = << t >>
                  /\ pageOvflow(getPage(ovflow', newp)) = NO_PAGE
                  /\ IF ids = << >>
                     THEN /\ data' = putPage(m0.data, b, pageSetOvflow(pg, newp))
                          /\ SubSeq(ovflow', 1, newp) = m0.ovflow
                     ELSE /\ data' = m0.data
                          /\ SubSeq(ovflow', 1, newp)
                                = putPage(m0.ovflow, ids[Len(ids)],
                                          pageSetOvflow(pages[Len(pages)], newp))]_vars

\* the last call found the primary page and the overflow page of its bucket
\* full and appended a second overflow page as the new tail
C20_Witness ==
    /\ opened
    /\ ret # NO_PAGE
    /\ LET ids == chainIds(ovflow, pageOvflow(getPage(data, ret)))
       IN /\ Len(ids) >= 2
          /\ ids[Len(ids)] = Len(ovflow) - 1
          /\ getPage(ovflow, ids[Len(ids)]).data = << lastT >>
          /\ getPage(ovflow, ids[1]).data # << >>

\* the last call passed a full primary page and put its tuple on an
\* overflow page that already held a tuple
C20_WitnessChain ==
    /\ opened
    /\ ret # NO_PAGE
    /\ lastT \notin Range(getPage(data, ret).data)
    /\ \E id \in Range(chainIds(ovflow, pageOvflow(getPage(data, ret)))) :
          LET d == getPage(ovflow, id).data
          IN Len(d) >= 2 /\ d[Len(d)] = lastT

\* the star positions selected by the bits of the number n
starsOf(n) == { q.starBits[i + 1] : i \in WordOf(n, 0) }

\* the page the scan is to fetch for bitSeq = n: with position depth a star
\* bit, the low depth+1 bits if that is a page of the file and none if not;
\* else the MAH address
gatedPage(n) ==
    LET h == starsOf(n) \cup q.known
        p == Val({ i \in h : i < r.depth + 1 })
    IN IF StarAtDepth
       THEN IF p < r.npages THEN p ELSE NO_PAGE
       ELSE mahAddress(r.depth, r.sp, h)

IsPage(p) == p # NO_PAGE

\* the pages to fetch for bitSeq = 0..n, in that order
RECURSIVE fetchedUpTo(_)
fetchedUpTo(n) ==
    IF n < 0 THEN << >>
    ELSE fetchedUpTo(n - 1) \o SelectSeq(<< gatedPage(n) >>, IsPage)

\* the bag of the tuples of the buckets fetched first to i-th
RECURSIVE fetchedBag(_)
fetchedBag(i) ==
    IF i = 0 THEN EmptyBag
    ELSE bucketBag(data, ovflow, q.fetched[i]) (+) fetchedBag(i - 1)

\* C21 - query page gating: every primary page a scan fetches has an id
\* below npages; the pages fetched are those of bitSeq = 0, 1, ... up to the
\* current bitSeq, one each, except that with position depth a star bit a
\* bitSeq whose depth+1-bit address is npages or more fetches nothing; such
\* a bitSeq returns no tuple of the bucket scanned before it again, and the
\* scan goes on to bitSeqMax.
C21_PageGating ==
    q.open =>
        /\ \A i \in 1..Len(q.fetched) : q.fetched[i] \in 0..(r.npages - 1)
        /\ q.fetched = fetchedUpTo(Val(q.bitSeq))
        /\ q.done => q.bitSeq = q.bitSeqMax
        /\ \A got \in {fetchedBag(Len(q.fetched))} :
              \A t \in Range(results) : Occurrences(results, t) <= CopiesIn(t, got)

\* a full-wildcard scan with position depth a star bit has ended: it
\* returned the tuples of the last page fetched, and the last bitSeq, whose
\* address is past the end of the file, fetched nothing
C21_Witness ==
    /\ QueryDone
    /\ q.query = AllStars
    /\ StarAtDepth
    /\ gatedPage(Val(q.bitSeqMax)) = NO_PAGE
    /\ Len(q.fetched) >= 3
    /\ bucketTuples(data, ovflow, q.fetched[Len(q.fetched)]) # << >>
    /\ Len(results) >= 3

\* the tuples of sq that match the pattern of the open query, in order
RECURSIVE matching(_)
matching(sq) ==
    IF sq = << >> THEN << >>
    ELSE (IF tupleMatch(r.nattrs, q.query, Head(sq)) THEN << Head(sq) >> ELSE << >>)
           \o matching(Tail(sq))

\* the tuples of the buckets of bitSeq = 0..n: buckets in ascending bitSeq,
\* within a bucket the primary page, then the overflow pages in chain
\* order, within a page the stored order
RECURSIVE scanOrder(_)
scanOrder(n) ==
    IF n < 0 THEN << >>
    ELSE LET pp == SelectSeq(<< gatedPage(n) >>, IsPage)
         IN scanOrder(n - 1)
              \o (IF pp = << >> THEN << >> ELSE bucketTuples(data, ovflow, pp[1]))

IsPrefix(a, b) == Len(a) <= Len(b) /\ SubSeq(b, 1, Len(a)) = a

\* C22 - scan order and resumption: the tuples returned so far by the calls
\* of one scan are, in the order returned, a prefix of the matching tuples
\* taken bucket by bucket in ascending bitSeq, primary page first, then each
\* overflow page in chain order, in stored order within a page; they lie in
\* the buckets reached so far (bitSeq = 0..current, never past bitSeqMax),
\* and when NULL has been returned bitSeq is bitSeqMax and they are all of
\* them, each stored occurrence once.
C22_ScanOrder ==
    q.open =>
        \A sofar \in {matching(scanOrder(Val(q.bitSeq)))} :
            /\ IsPrefix(results, sofar)
            /\ Val(q.bitSeq) <= Val(q.bitSeqMax)
            /\ q.done => (q.bitSeq = q.bitSeqMax /\ results = sofar)

\* a scan with a literal field has ended after returning three or more
\* tuples, from an overflow page of one bucket and from a later bucket,
\* having passed a tuple that does not match
C22_Witness ==
    /\ QueryDone
    /\ q.query # AllStars
    /\ Len(results) >= 3
    /\ Len(matching(scanOrder(Val(q.bitSeqMax)))) < Len(scanOrder(Val(q.bitSeqMax)))
    /\ \E i, j \in 1..Len(q.fetched) :
          /\ i < j
          /\ matching(chainTuples(ovflow, pageOvflow(getPage(data, q.fetched[i]))))
                # << >>
          /\ matching(bucketTuples(data, ovflow, q.fetched[j])) # << >>

\* a scan is between two calls, part of the way through an overflow page:
\* the next call resumes there
C22_WitnessResume ==
    /\ q.open
    /\ ~q.done
    /\ Len(results) >= 2
    /\ q.curpage \in Range(ovflow)
    /\ q.nTupleScanned >= 1
    /\ q.nTupleScanned < pageNTuples(q.curpage)

\* C23 - resource discipline, as claimed: when addToRelation has returned,
\* every page buffer it (and the split it ran) obtained with getPage has
\* been released, by putPage or by free, and a scan that has returned NULL
\* holds no page buffer.
C23_BuffersReleased ==
    /\ held = 0
    /\ (q.open /\ q.done) => q.held = 0

\* the page of the files that the page buffer of the scan is a copy of
currentPage ==
    IF q.curid.file = "data" THEN getPage(data, q.curid.id)
    ELSE getPage(ovflow, q.curid.id)

\* C24 - no page caching across operations, as claimed: a scan reads the
\* current contents of the pages, also with addToRelation calls between its
\* getNextTuple calls: the tuple a call returns is at that time the tuple at
\* the scan position in the page of the file, and the page buffer held
\* between two calls is equal to the page of the file.
C24_NoStaleCopy ==
    [][(q'.open /\ ~q'.done) =>
          /\ q'.curpage = currentPage'
          /\ (q'.ncalls = q.ncalls + 1 /\ result' # NULL) =>
                /\ q'.nTupleScanned \in 1..Len(currentPage'.data)
                /\ currentPage'.data[q'.nTupleScanned] = result']_vars

\* the overflow page ids of the chains of the buckets 0..b, one after another
RECURSIVE chainsUpTo(_, _, _)
chainsUpTo(dd, oo, b) ==
    IF b < 0 THEN << >>
    ELSE chainsUpTo(dd, oo, b - 1) \o chainIds(oo, pageOvflow(getPage(dd, b)))

\* C25 - monotonic growth: no step makes the primary file or the overflow
\* file shorter; the chain of every bucket after a step begins with the
\* chain it had before (a page once linked keeps its bucket and its
\* position, also when a split has emptied it); and after every step each
\* chain is a list of pages of the overflow file in which no page occurs
\* twice, in one chain or in two.
C25_MonotonicGrowth ==
    [][/\ Len(data') >= Len(data)
       /\ Len(ovflow') >= Len(ovflow)
       /\ \A b \in 0..(Len(data) - 1) :
             IsPrefix(chainIds(ovflow, pageOvflow(getPage(data, b))),
                      chainIds(ovflow', pageOvflow(getPage(data', b))))
       /\ \A all \in {chainsUpTo(data', ovflow', Len(data') - 1)} :
             /\ \A i \in 1..Len(all) : all[i] \in 0..(Len(ovflow') - 1)
             /\ \A i, j \in 1..Len(all) : i # j => all[i] # all[j]]_vars

\* no insert has failed, and a split has left a bucket with a chain of two
\* or more overflow pages, all emptied and still linked, while another
\* bucket has a chain of its own
C25_Witness ==
    /\ nadd = BagCardinality(inserted)
    /\ nsplits >= 2
    /\ \E b, b2 \in 0..(Len(data) - 1) :
          /\ b # b2
          /\ Len(chainIds(ovflow, pageOvflow(getPage(data, b)))) >= 2
          /\ chainTuples(ovflow, pageOvflow(getPage(data, b))) = << >>
          /\ chainTuples(ovflow, pageOvflow(getPage(data, b2))) # << >>

====
